---- MODULE Spec2Model ----
(***************************************************************************)
(* Model of fn-time's `timer` (src/index.js): the alias table `steps`, the *)
(* defaults `stepDef`, `startDef`, `nowDef`, and the function              *)
(* `timer(state, now, out = state)` acting on caller-owned records.        *)
(*                                                                         *)
(* JavaScript values are tagged records [k, n, s]: k is the kind, n the    *)
(* number (for a number, or the number a function returns), s the text     *)
(* (for a string, or the name of a built-in function).                     *)
(*                                                                         *)
(* Numbers are JavaScript floating-point numbers.  They are counted in     *)
(* thirds of a millisecond, so that 1e3/60 ms is the integer 50, and the   *)
(* significand is Prec bits wide instead of 53: `+` and `-` round their    *)
(* exact result to the nearest representable number, ties to even.         *)
(***************************************************************************)
EXTENDS Integers, Sequences, FiniteSets, TLC

VARIABLES recs, clock, pre, args, ret, threw, returned, calls

vars == <<recs, clock, pre, args, ret, threw, returned, calls>>

\* ------------------------------------------------------------------ bounds

\* Width of the significand of a number, in bits.
Prec == 5

\* Number of calls of timer in one behaviour.
MaxCalls == 2

\* ------------------------------------------------------------------ values

Undef == [k |-> "undef", n |-> 0, s |-> ""]
Null == [k |-> "null", n |-> 0, s |-> ""]
False == [k |-> "bool", n |-> 0, s |-> ""]
NaN == [k |-> "nan", n |-> 0, s |-> ""]
Num(x) == [k |-> "num", n |-> x, s |-> ""]
Str(x) == [k |-> "str", n |-> 0, s |-> x]
\* A caller's zero-argument function that returns the number x.
Fn(x) == [k |-> "fn", n |-> x, s |-> ""]
\* The built-in Date.now.
DateNow == [k |-> "fn", n |-> 0, s |-> "Date.now"]
\* A reference to the record recs[i].
Ref(i) == [k |-> "ref", n |-> i, s |-> ""]

\* ------------------------------------------------------------------ numbers

RECURSIVE Pow2(_)
Pow2(e) == IF e = 0 THEN 1 ELSE 2 * Pow2(e - 1)

\* The spacing of the representable numbers around the magnitude a.
RECURSIVE UlpFrom(_, _)
UlpFrom(a, u) == IF a < u * Pow2(Prec) THEN u ELSE UlpFrom(a, 2 * u)

RoundAbs(a) ==
    LET u == UlpFrom(a, 1)
        q == a \div u
        r == a % u
    IN  IF 2 * r < u THEN q * u
        ELSE IF 2 * r > u THEN (q + 1) * u
        ELSE IF q % 2 = 0 THEN q * u ELSE (q + 1) * u

\* Round to nearest, ties to even.
Round(x) == IF x < 0 THEN 0 - RoundAbs(0 - x) ELSE RoundAbs(x)

\* ToNumber of the values that reach the arithmetic of timer.  The strings
\* of the model are the empty string and strings that spell no number.
ToNumber(v) ==
    CASE v.k = "num" -> v
      [] v.k = "null" -> Num(0)
      [] v.k = "bool" -> Num(0)
      [] v.k = "str" /\ v.s = "" -> Num(0)
      [] OTHER -> NaN

\* The global isNaN: ToNumber(v) is NaN.
isNaN(v) == ToNumber(v).k = "nan"

\* a + b on numbers and on the values ToNumber turns into numbers.  No
\* string reaches it: a string taken for the sample is called first.
Plus(a, b) ==
    LET x == ToNumber(a)
        y == ToNumber(b)
    IN  IF x.k = "num" /\ y.k = "num" THEN Num(Round(x.n + y.n)) ELSE NaN

\* a - b.
Minus(a, b) ==
    LET x == ToNumber(a)
        y == ToNumber(b)
    IN  IF x.k = "num" /\ y.k = "num" THEN Num(Round(x.n - y.n)) ELSE NaN

\* !v is true.
Falsy(v) ==
    \/ v.k \in {"undef", "null", "bool", "nan"}
    \/ v.k = "num" /\ v.n = 0
    \/ v.k = "str" /\ v.s = ""

\* a ?? b.
Nullish(a, b) == IF a.k \in {"undef", "null"} THEN b ELSE a

\* The property key a value is turned into.
ToPropertyKey(v) ==
    CASE v.k = "str" -> v.s
      [] v.k = "num" -> ToString(v.n)
      [] v.k = "undef" -> "undefined"
      [] v.k = "null" -> "null"
      [] v.k = "bool" -> "false"
      [] v.k = "nan" -> "NaN"
      [] OTHER -> "function"

\* obj[key], undefined when obj has no such property.
Get(obj, key) ==
    LET p == ToPropertyKey(key)
    IN  IF p \in DOMAIN obj THEN obj[p] ELSE Undef

\* ------------------------------------------------------------------ exports

\* The keys spelt with a symbol are named by their code point.
steps ==
    [key \in {"diff", "dt", "U+23F3", "pause", "U+23F8", "add", "U+23ED"} |->
        CASE key \in {"diff", "dt", "U+23F3"} -> Str("-")
          [] key \in {"pause", "U+23F8"} -> Num(0)
          [] key \in {"add", "U+23ED"} -> Str("+")]

stepDef == steps["diff"]

startDef == 0

\* 1e3/60 ms, in thirds of a millisecond.
tick == 50

nowDef ==
    [key \in {steps["diff"].s, steps["add"].s} |->
        IF key = steps["diff"].s THEN DateNow ELSE Num(tick)]

\* ------------------------------------------------------------------ timer

\* Mutant: the third argument is ignored.
outOf_ignored(state, out) == state

\* The parameter default `out = state`: it applies when out is undefined,
\* whether omitted or passed.
outOf(state, out) == IF out.k = "undef" THEN state ELSE out

\* `time: t0 = startDef`.
timeOf(state) == IF state.time.k = "undef" THEN Num(startDef) ELSE state.time

\* `step = stepDef`.
stepOf(state) == IF state.step.k = "undef" THEN stepDef ELSE state.step

\* s: the step mode, from a key into steps or the value itself.
stepMode(step) == Nullish(Get(steps, step), step)

isDiff(s) == s = steps["diff"]

\* Mutant: `||` in place of `??`, a sample of 0 gives way to the default.
nowOf_or(now, s) == IF Falsy(now) THEN Nullish(Get(nowDef, s), s) ELSE now

\* Mutant: the step mode itself is not the last default.
nowOf_nostep(now, s) == Nullish(now, Get(nowDef, s))

\* t: the sample, its default for the mode, or the mode itself.
nowOf(now, s) == Nullish(now, Nullish(Get(nowDef, s), s))

\* Mutant: every function is taken for the clock.
Invoke_clock(t, c) == Num(Round(c))

\* t(): Date.now reads the clock, a caller's function returns its number.
Invoke(t, c) == IF t.s = "Date.now" THEN Num(Round(c)) ELSE Num(t.n)

\* Mutant: a value that is no function is used as it is.
Throws_never(s, t) == FALSE

\* `t()` is reached with a t that is no function: a TypeError.
Throws(s, t) == ~Falsy(s) /\ isNaN(t) /\ t.k # "fn"

\* Mutant: the difference mode adds to the last time too.
nextTime_adds(s, diff, t0, t, c) ==
    IF Falsy(s) THEN t0
    ELSE Plus(t0, IF isNaN(t) THEN Invoke(t, c) ELSE t)

\* Mutant: the pause mode is stepped like the add mode.
nextTime_nopause(s, diff, t0, t, c) ==
    Plus(IF diff THEN Num(0) ELSE t0, IF isNaN(t) THEN Invoke(t, c) ELSE t)

nextTime(s, diff, t0, t, c) ==
    IF Falsy(s) THEN t0
    ELSE Plus(IF diff THEN Num(0) ELSE t0, IF isNaN(t) THEN Invoke(t, c) ELSE t)

\* Mutant: the step is taken from zero.
delta_abs(t1, t0) == Minus(t1, Num(0))

delta(t1, t0) == Minus(t1, t0)

\* Mutant: the new time is returned in every mode.
bare_time(diff, dt, t1) == t1

\* The value returned when out is falsy.
bare(diff, dt, t1) == IF diff THEN dt ELSE t1

\* Mutant: the resolved mode is written in place of the given step.
assign_mode(t1, dt, step, s) == [time |-> t1, dt |-> dt, step |-> s]

\* out.time = t1; out.dt = dt; out.step = step.
assign(t1, dt, step, s) == [time |-> t1, dt |-> dt, step |-> step]

\* timer(h[i], now, out) with the clock at c: whether it threw, what it
\* returned, and the records afterwards.
timer(h, i, now, outArg, c) ==
    LET state == h[i]
        out == outOf(Ref(i), outArg)
        t0 == timeOf(state)
        step == stepOf(state)
        s == stepMode(step)
        diff == isDiff(s)
        t == nowOf(now, s)
        t1 == nextTime(s, diff, t0, t, c)
        dt == delta(t1, t0)
    IN  IF Throws(s, t) THEN [threw |-> TRUE, ret |-> Undef, recs |-> h]
        ELSE IF Falsy(out) THEN [threw |-> FALSE, ret |-> bare(diff, dt, t1), recs |-> h]
        ELSE [threw |-> FALSE, ret |-> out,
              recs |-> [h EXCEPT ![out.n] = assign(t1, dt, step, s)]]

\* ------------------------------------------------------------------ inputs

Refs == {1, 2}

\* The numbers the callers use, those of them that are representable.
Numbers == {x \in {0, 31, 100} : Round(x) = x}

ClockValues == {36, 40}

StepKeys == {"diff", "dt", "-", "U+23F3", "pause", "U+23F8", "add", "+", "U+23ED"}

\* state.step: absent, a key, a number, or a string that is no key.
Steps ==
    {Undef} \cup {Str(a) : a \in StepKeys} \cup {Num(x) : x \in {-3, 0, 2}}
        \cup {Str("foo")}

\* now: omitted, null, a number, a function, or a string that is no number.
Samples ==
    {Undef, Null, Str("abc")} \cup {Num(x) : x \in {0, 2}} \cup {Fn(x) : x \in {2}}

\* The falsy values: undefined, null, false, 0, the empty string, NaN.
Falsies == {Undef, Null, False, Num(0), Str(""), NaN}

\* A record that has none of the properties: {}.
Empty == [time |-> Undef, dt |-> Undef, step |-> Undef]

NoArgs == [state |-> 0, now |-> Undef, given |-> FALSE, out |-> Undef]

\* ------------------------------------------------------------------ machine

Init ==
    /\ \E t \in {Undef} \cup {Num(x) : x \in Numbers}, st \in Steps :
          recs = [i \in Refs |-> IF i = 1 THEN [time |-> t, dt |-> Undef, step |-> st]
                                 ELSE Empty]
    /\ clock = 36
    /\ pre = recs
    /\ args = NoArgs
    /\ ret = Undef
    /\ threw = FALSE
    /\ returned = FALSE
    /\ calls = 0

\* The caller's call timer(recs[i], now, out), up to its return or throw;
\* given tells whether the third argument was written in the call.
Call(i, now, given, out) ==
    LET r == timer(recs, i, now, out, clock)
    IN  /\ ~returned
        /\ calls < MaxCalls
        /\ calls' = calls + 1
        /\ returned' = TRUE
        /\ pre' = recs
        /\ args' = [state |-> i, now |-> now, given |-> given, out |-> out]
        /\ recs' = r.recs
        /\ ret' = r.ret
        /\ threw' = r.threw
        /\ UNCHANGED clock

\* The caller goes on after a call, dropping what the call returned.
Resume ==
    /\ returned
    /\ returned' = FALSE
    /\ pre' = recs
    /\ args' = NoArgs
    /\ ret' = Undef
    /\ threw' = FALSE
    /\ UNCHANGED <<recs, clock, calls>>

\* timer(state, now): out omitted.
TimerInPlace == \E i \in Refs, now \in Samples : Call(i, now, FALSE, Undef)

\* timer(state, now, out): out a record.
TimerInto == \E i \in Refs, j \in Refs, now \in Samples : Call(i, now, TRUE, Ref(j))

\* timer(state, now, out): out a falsy value.
TimerBare == \E i \in Refs, now \in Samples, f \in Falsies : Call(i, now, TRUE, f)

\* Time passes on the system clock.
ClockAdvance ==
    /\ ~returned
    /\ \E c \in ClockValues : c > clock /\ clock' = c
    /\ UNCHANGED <<recs, pre, args, ret, threw, returned, calls>>

Next == TimerInPlace \/ TimerInto \/ TimerBare \/ Resume \/ ClockAdvance

Spec == Init /\ [][Next]_vars

\* ------------------------------------------------------------------ claims

\* The state record the last call was given, as it was before the call.
InState == pre[args.state]

\* Its time, 0 when absent.
T0 == IF InState.time.k = "undef" THEN Num(0) ELSE InState.time

\* The last call has ended without an error.
Done == returned /\ ~threw

\* The last call's out is a record: the state record or the one passed.
TruthyOut == args.out.k \in {"undef", "ref"}

Target == IF args.out.k = "ref" THEN args.out.n ELSE args.state

\* The record the last call wrote into.
Out == recs[Target]

DiffSteps == {Undef, Str("diff"), Str("dt"), Str("-"), Str("U+23F3")}

AddAliases == {Str("add"), Str("+"), Str("U+23ED")}

PauseSteps == {Str("pause"), Str("U+23F8"), Num(0)}

NumericStep == InState.step.k = "num" /\ InState.step.n # 0

AddStep == InState.step \in AddAliases \/ NumericStep

\* A step string that is no key of the alias table and no number.
UnknownStep ==
    /\ InState.step.k = "str"
    /\ InState.step \notin DiffSteps \cup AddAliases \cup PauseSteps

\* The sum t0 + x needs no rounding.
Exact(t0, x) == Round(t0.n + x.n) = t0.n + x.n

\* C1: in diff mode (step 'diff', 'dt', '-', the hourglass, or absent), a
\* call with a numeric sample t and a truthy out leaves out.time = t and
\* out.dt = t - t0.
C1_DiffMode ==
    (returned /\ InState.step \in DiffSteps /\ args.now.k = "num" /\ TruthyOut)
        => /\ ~threw
           /\ Out.time = args.now
           /\ Out.dt = Minus(args.now, T0)

C1_Witness ==
    /\ Done /\ TruthyOut
    /\ InState.step = Str("diff") /\ args.now = Num(2) /\ T0 = Num(31)
    /\ Out.dt = Num(-29)

\* C2 as stated: in add mode (step 'add', '+', the skip symbol, or a
\* non-zero number), a call with a numeric sample s leaves
\* out.time = t0 + s and out.dt = s.
C2_AddMode_Original ==
    (returned /\ AddStep /\ args.now.k = "num" /\ TruthyOut)
        => /\ ~threw
           /\ Out.time = Plus(T0, args.now)
           /\ Out.dt = args.now

\* C2 as amended: in add mode a call with a numeric sample s leaves
\* out.time = t0 + s, the sum as the arithmetic rounds it, and
\* out.dt = out.time - t0; out.dt = s whenever the sum t0 + s is exact, and
\* a sample of 0 is used as given: time is unchanged and dt = 0.
C2_AddMode ==
    (returned /\ AddStep /\ args.now.k = "num" /\ TruthyOut)
        => /\ ~threw
           /\ Out.time = Plus(T0, args.now)
           /\ Out.dt = Minus(Out.time, T0)
           /\ Exact(T0, args.now) => Out.dt = args.now
           /\ args.now = Num(0) => (Out.time = T0 /\ Out.dt = Num(0))

C2_Witness ==
    /\ Done /\ TruthyOut /\ AddStep
    /\ args.now = Num(0) /\ T0 = Num(31)
    /\ Out.time = Num(31) /\ Out.dt = Num(0)

\* C3: in pause mode (step 'pause', the pause symbol, or the number 0), a
\* call with any sample leaves out.time = t0 and out.dt = 0.
C3_PauseMode ==
    (returned /\ InState.step \in PauseSteps /\ TruthyOut)
        => /\ ~threw
           /\ Out.time = T0
           /\ Out.dt = Num(0)

C3_Witness ==
    /\ Done /\ TruthyOut
    /\ InState.step = Str("pause") /\ args.now = Fn(2) /\ T0 = Num(31)
    /\ Out.time = Num(31)

\* C4: after every call with a truthy out, in any mode, out.dt equals
\* out.time minus the time the input state held before the call.
C4_DtIsChange ==
    (Done /\ TruthyOut) => Out.dt = Minus(Out.time, T0)

C4_Witness ==
    /\ Done /\ args.out = Ref(2) /\ args.state = 1 /\ calls = 2
    /\ InState.step \in AddAliases /\ T0 = Num(2) /\ Out.dt = Num(2)

\* C5: with out omitted, timer writes time, dt and step into the state
\* record and returns that record; with out another record, timer writes
\* only into out, returns out, and leaves the state record unchanged.
C5_Aliasing ==
    Done =>
        /\ ~args.given =>
              /\ ret = Ref(args.state)
              /\ \A f \in {"time", "dt", "step"} : recs[args.state][f] # Undef
              /\ \A j \in Refs \ {args.state} : recs[j] = pre[j]
        /\ (args.out.k = "ref" /\ args.out.n # args.state) =>
              /\ ret = args.out
              /\ \A f \in {"time", "dt", "step"} : recs[args.out.n][f] # Undef
              /\ \A j \in Refs \ {args.out.n} : recs[j] = pre[j]

C5_Witness ==
    /\ Done /\ args.out = Ref(2) /\ args.state = 1
    /\ recs[1] = pre[1] /\ recs[2] # pre[2] /\ recs[2].time # recs[1].time

\* The number a numeric or function sample stands for.
SampleValue == IF args.now.k = "fn" THEN Num(args.now.n) ELSE args.now

\* What a call with a falsy out returns for a numeric or function sample.
BareValue ==
    IF InState.step \in DiffSteps THEN Minus(SampleValue, T0)
    ELSE IF InState.step \in PauseSteps THEN T0
    ELSE Plus(T0, SampleValue)

\* C6 as stated: for every falsy value explicitly passed as out, timer
\* returns a bare number and writes to no record.
C6_FalsyOut_Original ==
    (Done /\ args.given /\ Falsy(args.out))
        => (ret.k = "num" /\ recs = pre)

\* C6 as amended: for every falsy value other than undefined passed as out
\* (null, false, 0, the empty string, NaN), timer returns a bare number, the
\* delta dt in diff mode and the new time t1 in add and pause modes, and
\* writes to no record; undefined passed as out is out omitted.
C6_FalsyOut ==
    /\ (Done /\ args.given /\ Falsy(args.out) /\ args.out # Undef)
          => /\ ret.k = "num"
             /\ recs = pre
             /\ args.now.k \in {"num", "fn"} => ret = BareValue
    /\ (Done /\ args.given /\ args.out = Undef)
          => (ret = Ref(args.state) /\ recs[args.state].dt # Undef)

C6_Witness ==
    /\ Done /\ args.given /\ args.out = False
    /\ InState.step = Str("dt") /\ T0 = Num(31) /\ args.now = Num(2)
    /\ ret = Num(-29)

\* C7: a call with a zero-argument function as the sample gives the time,
\* dt and return value of the call with the number the function returns.
C7_FunctionSample ==
    (returned /\ args.now.k = "fn")
        => LET r == timer(pre, args.state, Num(args.now.n), args.out, clock)
           IN  threw = r.threw /\ ret = r.ret /\ recs = r.recs

C7_Witness ==
    /\ Done /\ args.now = Fn(2) /\ TruthyOut /\ calls = 2
    /\ InState.step \in AddAliases /\ T0 = Num(2) /\ Out.time = Num(4)

\* C8 as stated: with the sample omitted (undefined or null), a non-zero
\* numeric step n gives time = t0 + n and dt = n, an add alias advances
\* time by the tick 1e3/60, and diff mode takes the value of the system
\* clock as the new time.
C8_DefaultSample_Original ==
    (returned /\ args.now \in {Undef, Null} /\ TruthyOut)
        => /\ NumericStep =>
                 /\ ~threw
                 /\ Out.time = Plus(T0, InState.step)
                 /\ Out.dt = InState.step
           /\ InState.step \in AddAliases =>
                 (~threw /\ Out.time = Plus(T0, Num(50)))
           /\ InState.step \in DiffSteps =>
                 (~threw /\ Out.time = Num(clock))

\* C8 as amended: as stated, but for a numeric step n dt = time - t0, which
\* is n whenever the sum t0 + n is exact.
C8_DefaultSample ==
    (returned /\ args.now \in {Undef, Null} /\ TruthyOut)
        => /\ NumericStep =>
                 /\ ~threw
                 /\ Out.time = Plus(T0, InState.step)
                 /\ Out.dt = Minus(Out.time, T0)
                 /\ Exact(T0, InState.step) => Out.dt = InState.step
           /\ InState.step \in AddAliases =>
                 (~threw /\ Out.time = Plus(T0, Num(50)))
           /\ InState.step \in DiffSteps =>
                 (~threw /\ Out.time = Num(clock))

C8_Witness ==
    /\ Done /\ args.now = Null /\ args.out = Ref(2)
    /\ InState.step = Num(2) /\ T0 = Num(2) /\ calls = 2
    /\ Out.time = Num(4) /\ Out.dt = Num(2)

\* C9 as stated: no call of timer raises an error.
C9_NoError_Original == returned => ~threw

\* C9 as amended: timer has no throw statement, but a call raises a
\* TypeError, and writes nothing, exactly when the mode is not pause and
\* either the sample is a string that spells no number, or the sample is
\* omitted and the step is a string that names no property of the alias
\* table and spells no number (the step is then called as a function).
\* Such a step with a numeric or function sample is stepped as add mode,
\* time = t0 + sample, with no error and no NaN.
C9_NoError ==
    returned =>
        /\ threw <=>
              /\ InState.step \notin PauseSteps
              /\ \/ args.now.k = "str"
                 \/ args.now \in {Undef, Null} /\ UnknownStep
        /\ threw => (recs = pre /\ ret = Undef)
        /\ (UnknownStep /\ args.now.k \in {"num", "fn"} /\ TruthyOut) =>
              (Out.time = Plus(T0, SampleValue) /\ Out.time.k = "num")

C9_Witness ==
    /\ returned /\ threw
    /\ InState.step = Str("foo") /\ args.now = Undef /\ ~args.given

\* C10: after every call with a truthy out, out.step is the step the input
\* state held as the caller gave it (not its canonical code), or '-' when
\* it held none; so an in-place call keeps the record's step mode.
C10_StepKept ==
    (Done /\ TruthyOut)
        => /\ Out.step = (IF InState.step = Undef THEN Str("-") ELSE InState.step)
           /\ ~args.given => stepMode(stepOf(recs[args.state]))
                                = stepMode(stepOf(InState))

C10_Witness ==
    /\ Done /\ ~args.given /\ calls = 2
    /\ InState.step = Str("diff") /\ Out.step = Str("diff")

\* No arithmetic of a reachable call yields NaN.
NoNaN == \A i \in Refs : recs[i].time.k # "nan" /\ recs[i].dt.k # "nan"

====
